---- MODULE Spec2Model ----
(***************************************************************************)
(* JetSupport engine-wash dashboard: one top-to-bottom run of the main     *)
(* page script (jetsupport_dashboard.py) or of the fleet page script       *)
(* (pages/Fleet_Heatmap.py).                                               *)
(*                                                                         *)
(* Floating-point quantities are kept in fixed point:                      *)
(*   deg, efficiency      1/DegScale percentage point                      *)
(*   fuel_burn            1/BurnScale flight (BurnScale = 100 * DegScale,  *)
(*                        so that "1.0 + deg / 100.0" is exact)            *)
(*   fuel_kg              whole kg (truncated)                             *)
(*   money                0.1 EUR                                          *)
(*   dSFC                 1/PctScale percent                               *)
(*   flight_time          0.1 h;  fuel_price 0.1 EUR/kg                    *)
(* A value a double can hold but an integer cannot (inf, -inf, nan) is a   *)
(* tagged record, see Fin/PosInf/NegInf/NaN.                               *)
(***************************************************************************)
EXTENDS Integers, Sequences, FiniteSets, TLC

VARIABLES
    page,               \* which script runs: "main" or "fleet"
    pc,                 \* position in the script
    messages,           \* st.error / st.warning / st.info / st.success shown so far
    outputs,            \* results rendered so far
    divisors,           \* every divisor a fuel-flow dSFC division was evaluated with
    uploaded_file,      \* what st.sidebar.file_uploader returned
    \* ---- main page ----
    qar_mode, qar_df,
    flight_time, flights_per_year, fuel_price, wash_cost, EGT_before, EGT_after,
    degradation_rate, recovery_factor, dSFC, fuel_flow_pre, fuel_flow_post,
    fuel_saved_flight,
    max_interval, intervals, fuel_costs, wash_costs, net_savings,
    deg, fuel_burn, baseline_cost, washes_applied,
    opt_idx, opt_interval, opt_net, opt_washes, df_opt,
    cycles, eff_no, eff_two, eff_opt, interval_two,
    \* ---- fleet page ----
    df, df_group, avg_deg

mainVars == <<qar_mode, qar_df,
              flight_time, flights_per_year, fuel_price, wash_cost, EGT_before, EGT_after,
              degradation_rate, recovery_factor, dSFC, fuel_flow_pre, fuel_flow_post,
              fuel_saved_flight,
              max_interval, intervals, fuel_costs, wash_costs, net_savings,
              deg, fuel_burn, baseline_cost, washes_applied,
              opt_idx, opt_interval, opt_net, opt_washes, df_opt,
              cycles, eff_no, eff_two, eff_opt, interval_two>>

fleetVars == <<df, df_group, avg_deg>>

vars == <<page, pc, messages, outputs, divisors, uploaded_file, mainVars, fleetVars>>

----------------------------------------------------------------------------
(* Bounds of the model *)

\* flights_per_year is drawn from MinFlights..MaxFlights
MaxFlights == 51

\* an uploaded table has 1..MaxRows rows
MaxRows == 1

----------------------------------------------------------------------------
(* Fixed-point scales *)

DegScale == 10 * 100
BurnScale == 100 * DegScale
PctScale == 10 * 10

(* Program constants and widget ranges *)

FuelFlowMilli == 521            \* fuel_flow = 0.521
DegRateDefault == 13            \* deg_rate_default = 0.013, in 1/DegScale
RecoveryDefault == 100          \* recovery_default = 1.00, in percent
MinFlights == 50                \* number_input("Flights per year", 50, 2000, 600)
MinInterval == 20               \* slider("Max wash interval (flights)", 20, 200, 120, 10)
MaxIntervalTop == 200
IntervalStep == 10
DefaultDSFC == 160              \* dSFC = 1.6
DefaultFlowPre == 1250          \* pd.Series([1250])
DefaultFlowPost == 1230         \* pd.Series([1230])

FlightsChoices == MinFlights..MaxFlights
FlightTimeChoices == {25, 100}                  \* 2.5 h (default), 10.0 h (maximum)
FuelPriceChoices == {8}                         \* 0.8 EUR/kg (default)
WashCostChoices == {1000}                       \* 1000 EUR (minimum)
EGTBeforeChoices == {630}
EGTAfterChoices == {620}
DegRateChoices == {12, 50}                      \* 0.012 (default), 0.05 (maximum)
RecoveryChoices == {92, 100}                    \* slider 50..100: default, maximum
ManualFlowPreChoices == {1250}                  \* number_input 500..4000, default 1250
ManualFlowPostChoices == {1230}                 \* number_input 400..4000, default 1230
MaxIntervalChoices == {m \in MinInterval..MaxIntervalTop : (m - MinInterval) % IntervalStep = 0}

----------------------------------------------------------------------------
(* Doubles that may be infinite or undefined *)

Fin(v) == [k |-> "fin", v |-> v]
PosInf == [k |-> "inf", v |-> 0]
NegInf == [k |-> "-inf", v |-> 0]
NaN == [k |-> "nan", v |-> 0]
Unset == [k |-> "unset", v |-> 0]

\* a / b * scale as IEEE division does it: a zero divisor yields inf, -inf or nan
FloatDiv(a, b, scale) ==
    IF b # 0 THEN Fin((a * scale) \div b)
    ELSE IF a > 0 THEN PosInf
    ELSE IF a < 0 THEN NegInf
    ELSE NaN

\* (pre - post) / pre * 100.0
DeltaSFC(pre, post) == FloatDiv(pre - post, pre, 100 * PctScale)

RECURSIVE SumFin(_)
SumFin(s) == IF s = <<>> THEN 0 ELSE s[1].v + SumFin(Tail(s))

IsNotNaN(x) == x.k # "nan"

\* pandas Series.mean(): NaN entries are skipped
Mean(s) ==
    LET t == SelectSeq(s, IsNotNaN)
        ks == {t[i].k : i \in 1..Len(t)}
    IN  IF t = <<>> THEN NaN
        ELSE IF "inf" \in ks /\ "-inf" \in ks THEN NaN
        ELSE IF "inf" \in ks THEN PosInf
        ELSE IF "-inf" \in ks THEN NegInf
        ELSE Fin(SumFin(t) \div Len(t))

\* x * c for a finite factor c > 0
Scale(x, c) == IF x.k = "fin" THEN Fin(x.v * c) ELSE x

----------------------------------------------------------------------------
(* Uploaded files *)

NoFile == [kind |-> "none"]
Unreadable == [kind |-> "unreadable"]
None == [kind |-> "None"]

Table(cols, rows) == [kind |-> "table", cols |-> cols, rows |-> rows]

FlowCols == {"Fuel_Flow_Pre", "Fuel_Flow_Post"}

ColValues(c) ==
    IF c = "Fuel_Flow_Pre" THEN {0, 1250}
    ELSE IF c = "Fuel_Flow_Post" THEN {1230}
    ELSE IF c = "Aircraft_ID" THEN {"A1", "A2"}
    ELSE IF c = "Month" THEN {"Jan 25", "Feb 25", "2025-02"}
    ELSE {Fin(120), Fin(250)}                       \* a precomputed dSFC column

RowOf(cols, a, m, d, p, q) ==
    [c \in cols |-> IF c = "Aircraft_ID" THEN a
                    ELSE IF c = "Month" THEN m
                    ELSE IF c = "dSFC" THEN d
                    ELSE IF c = "Fuel_Flow_Pre" THEN p
                    ELSE q]

RowsOver(cols) ==
    {RowOf(cols, a, m, d, p, q) :
        a \in ColValues("Aircraft_ID"), m \in ColValues("Month"), d \in ColValues("dSFC"),
        p \in ColValues("Fuel_Flow_Pre"), q \in ColValues("Fuel_Flow_Post")}

TablesOver(cols) ==
    {Table(cols, rows) : rows \in UNION {[1..n -> RowsOver(cols)] : n \in 1..MaxRows}}

MainUploads ==
    {NoFile, Unreadable} \cup TablesOver({"Fuel_Flow_Pre"}) \cup TablesOver(FlowCols)

FleetUploads ==
    {NoFile, Unreadable}
    \cup TablesOver({"Aircraft_ID", "Month", "dSFC"})
    \cup TablesOver({"Aircraft_ID", "Month"} \cup FlowCols)
    \cup TablesOver({"Aircraft_ID", "Month"})
    \cup TablesOver({"Month", "dSFC"})

Column(t, c) == [i \in 1..Len(t.rows) |-> Fin(t.rows[i][c])]

\* row-wise (Fuel_Flow_Pre - Fuel_Flow_Post) / Fuel_Flow_Pre * 100.0
DeltaColumn(t) ==
    [i \in 1..Len(t.rows) |-> DeltaSFC(t.rows[i]["Fuel_Flow_Pre"], t.rows[i]["Fuel_Flow_Post"])]

PreColumn(t) == {t.rows[i]["Fuel_Flow_Pre"] : i \in 1..Len(t.rows)}

----------------------------------------------------------------------------
(* Cost-benefit arithmetic *)

MoneyScale == 2 * 5

\* (a * b) / d, truncated, without leaving 32 bits
MulDiv(a, b, d) == a * (b \div d) + (a * (b % d)) \div d

\* fuel_flow * flight_time * 3600.0, kg per pristine flight
KgPerFlight(ft) == (FuelFlowMilli * ft * 36) \div 100

\* fuel_kg = fuel_flow * flight_time * 3600.0 * fuel_burn
FuelKg(ft, burn) == MulDiv(KgPerFlight(ft), burn, BurnScale)

\* fuel_cost = fuel_kg * fuel_price
FuelCost(ft, price, burn) == FuelKg(ft, burn) * price

\* total_wash_cost = n_washes * wash_cost
TotalWashCost(n_washes, cost) == n_washes * cost * MoneyScale

Max(a, b) == IF a >= b THEN a ELSE b

\* a net saving that is never reported below zero
NetSavingClamped(baseline, fuel_cost, total_wash_cost) ==
    Max(0, baseline - (fuel_cost + total_wash_cost))

\* net = baseline_cost - (fuel_cost + total_wash_cost)
NetSaving(baseline, fuel_cost, total_wash_cost) == baseline - (fuel_cost + total_wash_cost)

\* a wash that scales deg by (1.0 + recovery_factor)
RecoverAmplify(d, rf) == (d * (100 + rf)) \div 100

\* deg *= (1.0 - recovery_factor)
Recover(d, rf) == (d * (100 - rf)) \div 100

\* a wash test on the 0-based flight index
WashDueZeroBased(i, iv) == i % iv = 0

\* (i + 1) % iv == 0
WashDue(i, iv) == (i + 1) % iv = 0

\* a range that stops one element short when stop - start is not a multiple of step
PyRangeShort(start, stop, step) ==
    LET n == IF stop > start THEN (stop - start) \div step ELSE 0
    IN  [k \in 1..n |-> start + (k - 1) * step]

\* range(start, stop, step) for step > 0
PyRange(start, stop, step) ==
    LET n == IF stop > start THEN (stop - start + step - 1) \div step ELSE 0
    IN  [k \in 1..n |-> start + (k - 1) * step]

\* one pass of the no-wash loop body
BaselineBody(s, rate) ==
    [fuel_burn |-> s.fuel_burn + BurnScale + s.deg,
     deg |-> s.deg + rate]

\* the states after each of the passes lo .. hi-1 of the no-wash loop, from state s:
\* the first half, then the second half from where the first half ended (t = t
\* only fixes the order of evaluation: the first half is computed first)
RECURSIVE BaselineTrace(_, _, _, _)
BaselineTrace(s, lo, hi, rate) ==
    IF hi <= lo THEN <<>>
    ELSE IF hi = lo + 1 THEN <<BaselineBody(s, rate)>>
    ELSE LET mid == (lo + hi) \div 2
             t == BaselineTrace(s, lo, mid, rate)
         IN  IF t = t THEN t \o BaselineTrace(t[Len(t)], mid, hi, rate) ELSE t

BaselineInit == [deg |-> 0, fuel_burn |-> 0]

\* the no-wash loop, after k of its iterations
BaselineLoop(k, rate) ==
    IF k = 0 THEN BaselineInit
    ELSE LET t == BaselineTrace(BaselineInit, 0, k, rate) IN t[Len(t)]

\* one pass of the sweep's inner loop body for flight i and interval iv;
\* washes counts the passes that took the recovery branch
SweepBody(s, i, iv, rate, rf) ==
    LET d == s.deg + rate
    IN  [fuel_burn |-> s.fuel_burn + BurnScale + s.deg,
         deg |-> IF WashDue(i, iv) THEN Recover(d, rf) ELSE d,
         washes |-> IF WashDue(i, iv) THEN s.washes + 1 ELSE s.washes]

\* the states after each of the passes lo .. hi-1 of the sweep's inner loop, from state s
RECURSIVE SweepTrace(_, _, _, _, _, _)
SweepTrace(s, lo, hi, iv, rate, rf) ==
    IF hi <= lo THEN <<>>
    ELSE IF hi = lo + 1 THEN <<SweepBody(s, lo, iv, rate, rf)>>
    ELSE LET mid == (lo + hi) \div 2
             t == SweepTrace(s, lo, mid, iv, rate, rf)
         IN  IF t = t THEN t \o SweepTrace(t[Len(t)], mid, hi, iv, rate, rf) ELSE t

SweepInit == [deg |-> 0, fuel_burn |-> 0, washes |-> 0]

\* the inner loop of the sweep for interval iv, after k of its iterations
SweepLoop(iv, k, rate, rf) ==
    IF k = 0 THEN SweepInit
    ELSE LET t == SweepTrace(SweepInit, 0, k, iv, rate, rf) IN t[Len(t)]

\* a trajectory pass that records the efficiency after the degradation increment
TrajStepLate(s, c, rate, rf, i_two, i_opt) ==
    LET d_no == s.deg_no + rate
        d_two == s.deg_two + rate
        d_opt == s.deg_opt + rate
    IN  [eff_no |-> Append(s.eff_no, 100 * DegScale - d_no),
         eff_two |-> Append(s.eff_two, 100 * DegScale - d_two),
         eff_opt |-> Append(s.eff_opt, 100 * DegScale - d_opt),
         deg_no |-> d_no,
         deg_two |-> IF (c + 1) % i_two = 0 THEN Recover(d_two, rf) ELSE d_two,
         deg_opt |-> IF (c + 1) % i_opt = 0 THEN Recover(d_opt, rf) ELSE d_opt]

\* a trajectory pass that applies the recovery before the degradation increment
TrajStepWashFirst(s, c, rate, rf, i_two, i_opt) ==
    [eff_no |-> Append(s.eff_no, 100 * DegScale - s.deg_no),
     eff_two |-> Append(s.eff_two, 100 * DegScale - s.deg_two),
     eff_opt |-> Append(s.eff_opt, 100 * DegScale - s.deg_opt),
     deg_no |-> s.deg_no + rate,
     deg_two |-> IF (c + 1) % i_two = 0 THEN Recover(s.deg_two, rf) + rate ELSE s.deg_two + rate,
     deg_opt |-> IF (c + 1) % i_opt = 0 THEN Recover(s.deg_opt, rf) + rate ELSE s.deg_opt + rate]

\* one pass of the trajectory loop body for flight c
TrajStep(s, c, rate, rf, i_two, i_opt) ==
    LET d_no == s.deg_no + rate
        d_two == s.deg_two + rate
        d_opt == s.deg_opt + rate
    IN  [eff_no |-> Append(s.eff_no, 100 * DegScale - s.deg_no),
         eff_two |-> Append(s.eff_two, 100 * DegScale - s.deg_two),
         eff_opt |-> Append(s.eff_opt, 100 * DegScale - s.deg_opt),
         deg_no |-> d_no,
         deg_two |-> IF (c + 1) % i_two = 0 THEN Recover(d_two, rf) ELSE d_two,
         deg_opt |-> IF (c + 1) % i_opt = 0 THEN Recover(d_opt, rf) ELSE d_opt]

\* passes lo .. hi-1 of the trajectory loop, from state s
RECURSIVE TrajRun(_, _, _, _, _, _, _)
TrajRun(s, lo, hi, rate, rf, i_two, i_opt) ==
    IF hi <= lo THEN s
    ELSE IF hi = lo + 1 THEN TrajStep(s, lo, rate, rf, i_two, i_opt)
    ELSE LET mid == (lo + hi) \div 2
             r == TrajRun(s, lo, mid, rate, rf, i_two, i_opt)
         IN  IF r = r THEN TrajRun(r, mid, hi, rate, rf, i_two, i_opt) ELSE r

\* the trajectory loop, after k of its iterations
TrajLoop(k, rate, rf, i_two, i_opt) ==
    TrajRun([eff_no |-> <<>>, eff_two |-> <<>>, eff_opt |-> <<>>,
             deg_no |-> 0, deg_two |-> 0, deg_opt |-> 0], 0, k, rate, rf, i_two, i_opt)

\* the 0-based index of a smallest element
ArgMin(s) == (CHOOSE i \in 1..Len(s) : \A j \in 1..Len(s) : s[i] <= s[j]) - 1

\* the 0-based index of the last largest element
ArgMaxLast(s) ==
    (CHOOSE i \in 1..Len(s) : /\ \A j \in 1..Len(s) : s[j] <= s[i]
                              /\ \A j \in (i + 1)..Len(s) : s[j] < s[i]) - 1

\* np.argmax: 0-based index of the first largest element, scanning from position j
RECURSIVE ArgMaxFrom(_, _, _)
ArgMaxFrom(s, j, best) ==
    IF j > Len(s) THEN best - 1
    ELSE IF s[j] > s[best] THEN ArgMaxFrom(s, j + 1, j)
    ELSE ArgMaxFrom(s, j + 1, best)

ArgMax(s) == ArgMaxFrom(s, 2, 1)

\* np.arange(n)
Arange(n) == [k \in 1..n |-> k - 1]

----------------------------------------------------------------------------
(* Initial state: a page has been opened and its script is about to run *)

Init ==
    /\ page \in {"main", "fleet"}
    /\ pc = IF page = "main" THEN "mode" ELSE "f_upload"
    /\ messages = {}
    /\ outputs = {}
    /\ divisors = {}
    /\ uploaded_file = NoFile
    /\ qar_mode = FALSE
    /\ qar_df = None
    /\ flight_time = 0 /\ flights_per_year = 0 /\ fuel_price = 0 /\ wash_cost = 0
    /\ EGT_before = 0 /\ EGT_after = 0
    /\ degradation_rate = 0 /\ recovery_factor = 0
    /\ dSFC = Unset /\ fuel_flow_pre = Unset /\ fuel_flow_post = Unset
    /\ fuel_saved_flight = Unset
    /\ max_interval = 0 /\ intervals = <<>>
    /\ fuel_costs = <<>> /\ wash_costs = <<>> /\ net_savings = <<>>
    /\ deg = 0 /\ fuel_burn = 0 /\ baseline_cost = 0 /\ washes_applied = <<>>
    /\ opt_idx = 0 /\ opt_interval = 0 /\ opt_net = 0 /\ opt_washes = 0
    /\ df_opt = None
    /\ cycles = <<>> /\ eff_no = <<>> /\ eff_two = <<>> /\ eff_opt = <<>>
    /\ interval_two = 0
    /\ df = None /\ df_group = None /\ avg_deg = Unset

----------------------------------------------------------------------------
(* Main page: jetsupport_dashboard.py *)

uploadVars == <<uploaded_file, qar_df>>
inputVars == <<flight_time, flights_per_year, fuel_price, wash_cost, EGT_before, EGT_after>>
modelVars == <<degradation_rate, recovery_factor, dSFC, fuel_flow_pre, fuel_flow_post>>
sweepVars == <<max_interval, intervals, fuel_costs, wash_costs, net_savings,
               deg, fuel_burn, baseline_cost, washes_applied>>
optVars == <<opt_idx, opt_interval, opt_net, opt_washes>>
trajVars == <<cycles, eff_no, eff_two, eff_opt, interval_two>>

\* mode = st.sidebar.radio(...); qar_mode = mode == "QAR Data"
ChooseMode ==
    /\ page = "main" /\ pc = "mode"
    /\ qar_mode' \in BOOLEAN
    /\ pc' = "upload"
    /\ UNCHANGED <<page, messages, outputs, divisors, uploadVars, inputVars, modelVars,
                   fuel_saved_flight, sweepVars, optVars, df_opt, trajVars, fleetVars>>

\* the QAR upload block: a file that cannot be read leaves qar_df = None
Upload ==
    /\ page = "main" /\ pc = "upload"
    /\ \E f \in MainUploads :
        /\ uploaded_file' = f
        /\ IF f.kind = "none"
             THEN qar_df' = None /\ messages' = messages
             ELSE IF f.kind = "unreadable"
                    THEN qar_df' = None /\ messages' = messages \cup {"Error reading file"}
                    ELSE qar_df' = f /\ messages' = messages \cup {"Loaded"}
    /\ pc' = "inputs"
    /\ UNCHANGED <<page, outputs, divisors, qar_mode, inputVars, modelVars,
                   fuel_saved_flight, sweepVars, optVars, df_opt, trajVars, fleetVars>>

\* the operational inputs of the sidebar
OperationalInputs ==
    /\ page = "main" /\ pc = "inputs"
    /\ EGT_before' \in EGTBeforeChoices
    /\ EGT_after' \in EGTAfterChoices
    /\ flight_time' \in FlightTimeChoices
    /\ flights_per_year' \in FlightsChoices
    /\ fuel_price' \in FuelPriceChoices
    /\ wash_cost' \in WashCostChoices
    /\ pc' = "model"
    /\ UNCHANGED <<page, messages, outputs, divisors, qar_mode, uploadVars, modelVars,
                   fuel_saved_flight, sweepVars, optVars, df_opt, trajVars, fleetVars>>

\* QAR mode with a loaded table: dSFC from its fuel-flow columns, or the default
ModelFromQAR ==
    /\ page = "main" /\ pc = "model"
    /\ qar_mode /\ qar_df # None
    /\ degradation_rate' \in DegRateChoices
    /\ recovery_factor' \in RecoveryChoices
    /\ messages' = messages \cup {"QAR data detected"}
    /\ IF FlowCols \subseteq qar_df.cols
         THEN /\ dSFC' = Mean(DeltaColumn(qar_df))
              /\ divisors' = divisors \cup PreColumn(qar_df)
         ELSE /\ dSFC' = Fin(DefaultDSFC)
              /\ divisors' = divisors
    /\ fuel_flow_pre' = IF "Fuel_Flow_Pre" \in qar_df.cols
                          THEN Mean(Column(qar_df, "Fuel_Flow_Pre"))
                          ELSE Fin(DefaultFlowPre)
    /\ fuel_flow_post' = IF "Fuel_Flow_Post" \in qar_df.cols
                           THEN Mean(Column(qar_df, "Fuel_Flow_Post"))
                           ELSE Fin(DefaultFlowPost)
    /\ pc' = "kpi"
    /\ UNCHANGED <<page, outputs, qar_mode, uploadVars, inputVars,
                   fuel_saved_flight, sweepVars, optVars, df_opt, trajVars, fleetVars>>

\* QAR mode without a table: manual fuel-flow entry
ModelManual ==
    /\ page = "main" /\ pc = "model"
    /\ qar_mode /\ qar_df = None
    /\ degradation_rate' \in DegRateChoices
    /\ recovery_factor' \in RecoveryChoices
    /\ messages' = messages \cup {"No QAR file"}
    /\ \E pre \in ManualFlowPreChoices, post \in ManualFlowPostChoices :
        /\ fuel_flow_pre' = Fin(pre)
        /\ fuel_flow_post' = Fin(post)
        /\ dSFC' = DeltaSFC(pre, post)
        /\ divisors' = divisors \cup {pre}
    /\ pc' = "kpi"
    /\ UNCHANGED <<page, outputs, qar_mode, uploadVars, inputVars,
                   fuel_saved_flight, sweepVars, optVars, df_opt, trajVars, fleetVars>>

\* simulation mode: defaults and the EGT heuristic dSFC = 0.08 * (EGT_before - EGT_after)
ModelSimulation ==
    /\ page = "main" /\ pc = "model"
    /\ ~qar_mode
    /\ degradation_rate' = DegRateDefault
    /\ recovery_factor' = RecoveryDefault
    /\ dSFC' = Fin(((8 * PctScale) \div 100) * (EGT_before - EGT_after))
    /\ pc' = "kpi"
    /\ UNCHANGED <<page, messages, outputs, divisors, qar_mode, uploadVars, inputVars,
                   fuel_flow_pre, fuel_flow_post,
                   fuel_saved_flight, sweepVars, optVars, df_opt, trajVars, fleetVars>>

\* core calculations, KPI cards and gauges
KPI ==
    /\ page = "main" /\ pc = "kpi"
    /\ fuel_saved_flight' = Scale(dSFC, KgPerFlight(flight_time))
    /\ outputs' = outputs \cup {"dSFC", "KPI", "gauges"}
    /\ pc' = "slider"
    /\ UNCHANGED <<page, messages, divisors, qar_mode, uploadVars, inputVars, modelVars,
                   sweepVars, optVars, df_opt, trajVars, fleetVars>>

\* max_interval slider and the candidate list
Slider ==
    /\ page = "main" /\ pc = "slider"
    /\ \E m \in MaxIntervalChoices :
        /\ max_interval' = m
        /\ intervals' = PyRange(MinInterval, m + 1, IntervalStep)
    /\ fuel_costs' = <<>> /\ wash_costs' = <<>> /\ net_savings' = <<>>
    /\ pc' = "baseline"
    /\ UNCHANGED <<page, messages, outputs, divisors, qar_mode, uploadVars, inputVars, modelVars,
                   fuel_saved_flight, deg, fuel_burn, baseline_cost, washes_applied,
                   optVars, df_opt, trajVars, fleetVars>>

\* the no-wash loop and baseline_cost
Baseline ==
    /\ page = "main" /\ pc = "baseline"
    /\ LET s == BaselineLoop(flights_per_year, degradation_rate)
       IN  /\ deg' = s.deg
           /\ fuel_burn' = s.fuel_burn
           /\ baseline_cost' = FuelCost(flight_time, fuel_price, s.fuel_burn)
    /\ pc' = IF intervals = <<>> THEN "argmax" ELSE "sweep"
    /\ UNCHANGED <<page, messages, outputs, divisors, qar_mode, uploadVars, inputVars, modelVars,
                   fuel_saved_flight, max_interval, intervals, fuel_costs, wash_costs,
                   net_savings, washes_applied, optVars, df_opt, trajVars, fleetVars>>

\* one iteration of "for iv in intervals"
SweepStep ==
    /\ page = "main" /\ pc = "sweep"
    /\ Len(net_savings) < Len(intervals)
    /\ LET iv == intervals[Len(net_savings) + 1]
           s == SweepLoop(iv, flights_per_year, degradation_rate, recovery_factor)
           fuel_cost == FuelCost(flight_time, fuel_price, s.fuel_burn)
           n_washes == flights_per_year \div iv
           total_wash_cost == TotalWashCost(n_washes, wash_cost)
           net == NetSaving(baseline_cost, fuel_cost, total_wash_cost)
       IN  /\ deg' = s.deg
           /\ fuel_burn' = s.fuel_burn
           /\ washes_applied' = Append(washes_applied, s.washes)
           /\ fuel_costs' = Append(fuel_costs, fuel_cost)
           /\ wash_costs' = Append(wash_costs, total_wash_cost)
           /\ net_savings' = Append(net_savings, net)
    /\ pc' = IF Len(net_savings) + 1 = Len(intervals) THEN "argmax" ELSE "sweep"
    /\ UNCHANGED <<page, messages, outputs, divisors, qar_mode, uploadVars, inputVars, modelVars,
                   fuel_saved_flight, max_interval, intervals, baseline_cost,
                   optVars, df_opt, trajVars, fleetVars>>

\* opt_idx = int(np.argmax(net_savings)) and what follows from it;
\* np.argmax raises ValueError on an empty list
Optimum ==
    /\ page = "main" /\ pc = "argmax"
    /\ IF net_savings = <<>>
         THEN /\ pc' = "crashed"
              /\ UNCHANGED <<optVars, outputs>>
         ELSE /\ opt_idx' = ArgMax(net_savings)
              /\ opt_interval' = intervals[opt_idx' + 1]
              /\ opt_net' = net_savings[opt_idx' + 1]
              /\ opt_washes' = flights_per_year \div opt_interval'
              /\ outputs' = outputs \cup {"optimizer"}
              /\ pc' = "table"
    /\ UNCHANGED <<page, messages, divisors, qar_mode, uploadVars, inputVars, modelVars,
                   fuel_saved_flight, sweepVars, df_opt, trajVars, fleetVars>>

\* df_opt and the cost-benefit chart
EvaluationTable ==
    /\ page = "main" /\ pc = "table"
    /\ df_opt' = [kind |-> "table",
                  cols |-> {"Interval (flights)", "Wash cost (EUR)", "Net saving (EUR)"},
                  rows |-> [j \in 1..Len(intervals) |->
                              [c \in {"Interval (flights)", "Wash cost (EUR)", "Net saving (EUR)"} |->
                                 IF c = "Interval (flights)" THEN intervals[j]
                                 ELSE IF c = "Wash cost (EUR)" THEN wash_costs[j]
                                 ELSE net_savings[j]]]]
    /\ outputs' = outputs \cup {"cost-benefit chart"}
    /\ pc' = "trajectory"
    /\ UNCHANGED <<page, messages, divisors, qar_mode, uploadVars, inputVars, modelVars,
                   fuel_saved_flight, sweepVars, optVars, trajVars, fleetVars>>

\* the degradation and recovery curves of the three policies
Trajectory ==
    /\ page = "main" /\ pc = "trajectory"
    /\ cycles' = Arange(flights_per_year)
    /\ interval_two' = Max(flights_per_year \div 2, 1)
    /\ LET s == TrajLoop(Len(cycles'), degradation_rate, recovery_factor,
                         interval_two', opt_interval)
       IN  /\ eff_no' = s.eff_no
           /\ eff_two' = s.eff_two
           /\ eff_opt' = s.eff_opt
    /\ outputs' = outputs \cup {"trajectory"}
    /\ pc' = "done"
    /\ UNCHANGED <<page, messages, divisors, qar_mode, uploadVars, inputVars, modelVars,
                   fuel_saved_flight, sweepVars, optVars, df_opt, fleetVars>>

MainNext ==
    \/ ChooseMode
    \/ Upload
    \/ OperationalInputs
    \/ ModelFromQAR
    \/ ModelManual
    \/ ModelSimulation
    \/ KPI
    \/ Slider
    \/ Baseline
    \/ SweepStep
    \/ Optimum
    \/ EvaluationTable
    \/ Trajectory

----------------------------------------------------------------------------
(* Fleet page: pages/Fleet_Heatmap.py *)

\* pd.to_datetime(..., format="%b %y"): the months that parse, as year * 100 + month
MonthDt(m) == IF m = "Jan 25" THEN 202501 ELSE IF m = "Feb 25" THEN 202502 ELSE 0

Parses(m) == MonthDt(m) # 0

AircraftOrd(a) == IF a = "A1" THEN 1 ELSE 2

RowLeq(r1, r2) ==
    \/ AircraftOrd(r1["Aircraft_ID"]) < AircraftOrd(r2["Aircraft_ID"])
    \/ /\ r1["Aircraft_ID"] = r2["Aircraft_ID"]
       /\ MonthDt(r1["Month"]) <= MonthDt(r2["Month"])

\* insert r after the last row that is not greater than it
RECURSIVE Insert(_, _)
Insert(sorted, r) ==
    IF Len(sorted) = 0 THEN <<r>>
    ELSE IF RowLeq(sorted[Len(sorted)], r) THEN Append(sorted, r)
    ELSE Append(Insert(SubSeq(sorted, 1, Len(sorted) - 1), r), sorted[Len(sorted)])

\* df.sort_values(["Aircraft_ID", "Month_dt"])
RECURSIVE SortRows(_)
SortRows(rows) ==
    IF Len(rows) = 0 THEN <<>>
    ELSE Insert(SortRows(SubSeq(rows, 1, Len(rows) - 1)), rows[Len(rows)])

RECURSIVE SetToSeq(_)
SetToSeq(S) ==
    IF S = {} THEN <<>>
    ELSE LET x == CHOOSE y \in S : TRUE IN <<x>> \o SetToSeq(S \ {x})

\* df.groupby(["Aircraft_ID", "Month"])["dSFC"].mean().reset_index()
GroupMeans(rows) ==
    LET keys == {<<rows[i]["Aircraft_ID"], rows[i]["Month"]>> : i \in 1..Len(rows)}
        Of(key) == LET InGroup(r) == <<r["Aircraft_ID"], r["Month"]>> = key
                       g == SelectSeq(rows, InGroup)
                   IN  [i \in 1..Len(g) |-> g[i]["dSFC"]]
    IN  {[Aircraft_ID |-> key[1], Month |-> key[2], dSFC |-> Mean(Of(key))] : key \in keys}

\* a validation that is satisfied by either of the two columns
RequiredPresentEither(cols) == {"Aircraft_ID", "Month"} \cap cols # {}

\* required.issubset(df.columns)
RequiredPresent(cols) == {"Aircraft_ID", "Month"} \subseteq cols

fleetRest == <<qar_mode, qar_df, inputVars, modelVars, fuel_saved_flight,
               sweepVars, optVars, df_opt, trajVars>>

\* file_uploader; without a file the page shows its hint and stops
FleetUpload ==
    /\ page = "fleet" /\ pc = "f_upload"
    /\ \E f \in FleetUploads :
        /\ uploaded_file' = f
        /\ IF f.kind = "none"
             THEN messages' = messages \cup {"Upload a fleet dataset"} /\ pc' = "stopped"
             ELSE messages' = messages /\ pc' = "f_read"
    /\ UNCHANGED <<page, outputs, divisors, qar_mode, qar_df, inputVars, modelVars,
                   fuel_saved_flight, sweepVars, optVars, df_opt, trajVars, fleetVars>>

\* pd.read_csv inside try/except
FleetRead ==
    /\ page = "fleet" /\ pc = "f_read"
    /\ IF uploaded_file.kind = "unreadable"
         THEN /\ messages' = messages \cup {"Error reading file"}
              /\ pc' = "stopped"
              /\ df' = df
         ELSE /\ df' = uploaded_file
              /\ messages' = messages
              /\ pc' = "f_validate"
    /\ UNCHANGED <<page, outputs, divisors, uploaded_file, fleetRest, df_group, avg_deg>>

\* required = {"Aircraft_ID", "Month"}
FleetValidate ==
    /\ page = "fleet" /\ pc = "f_validate"
    /\ IF ~RequiredPresent(df.cols)
         THEN /\ messages' = messages \cup {"Dataset must include columns: Aircraft_ID and Month"}
              /\ pc' = "stopped"
         ELSE /\ messages' = messages
              /\ pc' = "f_dsfc"
    /\ UNCHANGED <<page, outputs, divisors, uploaded_file, fleetRest, fleetVars>>

\* compute the dSFC column from the fuel flows if it is absent; stop if it is still absent
FleetDeltaSFC ==
    /\ page = "fleet" /\ pc = "f_dsfc"
    /\ IF "dSFC" \notin df.cols /\ FlowCols \subseteq df.cols
         THEN /\ df' = Table(df.cols \cup {"dSFC"},
                             [i \in 1..Len(df.rows) |->
                                [c \in df.cols \cup {"dSFC"} |->
                                   IF c = "dSFC" THEN DeltaColumn(df)[i] ELSE df.rows[i][c]]])
              /\ divisors' = divisors \cup PreColumn(df)
         ELSE /\ df' = df
              /\ divisors' = divisors
    /\ IF "dSFC" \notin df'.cols
         THEN /\ messages' = messages \cup {"Dataset must include dSFC or fuel flows"}
              /\ pc' = "stopped"
         ELSE /\ messages' = messages
              /\ pc' = "f_month"
    /\ UNCHANGED <<page, outputs, uploaded_file, fleetRest, df_group, avg_deg>>

\* parse Month, sort by aircraft and month
FleetMonth ==
    /\ page = "fleet" /\ pc = "f_month"
    /\ IF \E i \in 1..Len(df.rows) : ~Parses(df.rows[i]["Month"])
         THEN /\ messages' = messages \cup {"Could not parse Month column"}
              /\ pc' = "stopped"
              /\ df' = df
         ELSE /\ df' = Table(df.cols, SortRows(df.rows))
              /\ messages' = messages
              /\ pc' = "f_aggregate"
    /\ UNCHANGED <<page, outputs, divisors, uploaded_file, fleetRest, df_group, avg_deg>>

\* monthly mean per aircraft and the pivot
FleetAggregate ==
    /\ page = "fleet" /\ pc = "f_aggregate"
    /\ df_group' = [kind |-> "groups", rows |-> GroupMeans(df.rows)]
    /\ outputs' = outputs \cup {"aggregation"}
    /\ pc' = "f_heatmap"
    /\ UNCHANGED <<page, messages, divisors, uploaded_file, fleetRest, df, avg_deg>>

\* heatmap and trendline charts
FleetCharts ==
    /\ page = "fleet" /\ pc = "f_heatmap"
    /\ outputs' = outputs \cup {"heatmap", "trendline"}
    /\ pc' = "f_metrics"
    /\ UNCHANGED <<page, messages, divisors, uploaded_file, fleetRest, fleetVars>>

\* fleet metrics, alert and download button
FleetMetrics ==
    /\ page = "fleet" /\ pc = "f_metrics"
    /\ avg_deg' = Mean([i \in 1..Cardinality(df_group.rows) |->
                          SetToSeq(df_group.rows)[i].dSFC])
    /\ outputs' = outputs \cup {"metrics", "alert", "download"}
    /\ pc' = "done"
    /\ UNCHANGED <<page, messages, divisors, uploaded_file, fleetRest, df, df_group>>

FleetNext ==
    \/ FleetUpload
    \/ FleetRead
    \/ FleetValidate
    \/ FleetDeltaSFC
    \/ FleetMonth
    \/ FleetAggregate
    \/ FleetCharts
    \/ FleetMetrics

Next == MainNext \/ FleetNext

Spec == Init /\ [][Next]_vars

----------------------------------------------------------------------------
(* Properties *)

Swept == page = "main" /\ pc \in {"argmax", "table", "trajectory", "done"}
Optimised == page = "main" /\ pc \in {"table", "trajectory", "done"}
Candidates == 1..Len(intervals)

\* C1: after the sweep the selected interval is one of the candidates, opt_net is
\* its recorded net saving, and no evaluated candidate has a larger net saving.
C1_OptimumIsMaximal ==
    Optimised =>
        /\ Len(intervals) > 0
        /\ \E j \in Candidates : intervals[j] = opt_interval /\ net_savings[j] = opt_net
        /\ \A j \in Candidates : opt_net >= net_savings[j]

\* a run whose optimum is a washing interval that is not the first candidate
C1_Witness ==
    /\ Optimised
    /\ opt_idx > 0
    /\ opt_net > 0
    /\ opt_interval <= flights_per_year
    /\ \E j \in Candidates : net_savings[j] < opt_net

\* C2: among candidates with the maximal net saving the first one, the smallest
\* interval, is selected: no smaller interval has a net saving equal to opt_net.
C2_FirstMaximizer ==
    Optimised =>
        \A j \in Candidates : intervals[j] < opt_interval => net_savings[j] # opt_net

\* a run in which several candidates tie for the maximal net saving
C2_Witness ==
    /\ Optimised
    /\ \E j \in Candidates : intervals[j] > opt_interval /\ net_savings[j] = opt_net
    /\ \E j \in Candidates : intervals[j] < opt_interval

\* C3: every recorded net saving is baseline_cost - fuel_cost - (flights_per_year // iv)
\* * wash_cost, with baseline_cost the no-wash fuel cost; it is not clamped at zero.
C3_NetSavingFormula ==
    /\ \A j \in 1..Len(net_savings) :
          net_savings[j] = baseline_cost - fuel_costs[j]
                           - (flights_per_year \div intervals[j]) * wash_cost * MoneyScale
    /\ page = "main" /\ pc \in {"sweep", "argmax", "table", "trajectory", "done"} =>
          baseline_cost = FuelCost(flight_time, fuel_price,
                                   BaselineLoop(flights_per_year, degradation_rate).fuel_burn)

\* a candidate whose fuel cost plus wash cost exceeds the baseline cost
C3_Witness ==
    /\ Swept
    /\ \E j \in Candidates : net_savings[j] < 0 /\ fuel_costs[j] + wash_costs[j] > baseline_cost
    /\ \E j \in Candidates : net_savings[j] > 0

\* deg entering flight c (0-based) of the sweep's inner loop for interval iv
DegEntering(t, c) == IF c = 0 THEN 0 ELSE t[c].deg

\* C4: the no-wash loop has, after every flight, the deg and cumulative burn of the
\* sweep loop run with an interval that never triggers (interval > flights_per_year),
\* and each trajectory curve has, entering every flight, the deg of the sweep loop
\* (of the no-wash loop, for the no-wash curve) run with that policy's interval.
C4_OneRecurrence ==
    /\ (/\ page = "main" /\ pc \in {"sweep", "argmax"}
        /\ Len(net_savings) > 0
        /\ intervals[Len(net_savings)] > flights_per_year) =>
          LET b == BaselineTrace(BaselineInit, 0, flights_per_year, degradation_rate)
              t == SweepTrace(SweepInit, 0, flights_per_year, intervals[Len(net_savings)],
                              degradation_rate, recovery_factor)
          IN  /\ Len(b) = flights_per_year /\ Len(t) = flights_per_year
              /\ \A k \in 1..flights_per_year :
                    b[k].deg = t[k].deg /\ b[k].fuel_burn = t[k].fuel_burn
              /\ deg = b[flights_per_year].deg
              /\ fuel_burn = b[flights_per_year].fuel_burn
    /\ (page = "main" /\ pc = "done") =>
          LET b == BaselineTrace(BaselineInit, 0, flights_per_year, degradation_rate)
              t_two == SweepTrace(SweepInit, 0, flights_per_year, interval_two,
                                  degradation_rate, recovery_factor)
              t_opt == SweepTrace(SweepInit, 0, flights_per_year, opt_interval,
                                  degradation_rate, recovery_factor)
          IN  \A c \in 0..(flights_per_year - 1) :
                /\ 100 * DegScale - eff_no[c + 1] = DegEntering(b, c)
                /\ 100 * DegScale - eff_two[c + 1] = DegEntering(t_two, c)
                /\ 100 * DegScale - eff_opt[c + 1] = DegEntering(t_opt, c)

\* a finished run that swept an interval longer than the year and whose optimized
\* and fixed policies both washed with a partial recovery
C4_Witness ==
    /\ page = "main" /\ pc = "done"
    /\ \E j \in Candidates : intervals[j] > flights_per_year
    /\ opt_interval < flights_per_year
    /\ recovery_factor < 100
    /\ eff_opt[flights_per_year] > eff_no[flights_per_year]
    /\ eff_two[flights_per_year] > eff_no[flights_per_year]

\* C5: each of the three efficiency curves has exactly flights_per_year elements,
\* on the flight axis 0 .. flights_per_year - 1, and starts at exactly 100.
C5_TrajectoryShape ==
    (page = "main" /\ pc = "done") =>
        /\ Len(eff_no) = flights_per_year
        /\ Len(eff_two) = flights_per_year
        /\ Len(eff_opt) = flights_per_year
        /\ Len(cycles) = flights_per_year
        /\ \A k \in 1..Len(cycles) : cycles[k] = k - 1
        /\ eff_no[1] = 100 * DegScale
        /\ eff_two[1] = 100 * DegScale
        /\ eff_opt[1] = 100 * DegScale

\* a finished run whose curves leave 100 after the first flight
C5_Witness ==
    /\ page = "main" /\ pc = "done"
    /\ degradation_rate > 0
    /\ eff_no[2] < 100 * DegScale
    /\ eff_opt[flights_per_year] < 100 * DegScale
    /\ interval_two = Max(flights_per_year \div 2, 1)

ErrorMessages ==
    {"Error reading file",
     "Dataset must include columns: Aircraft_ID and Month",
     "Dataset must include dSFC or fuel flows"}

FleetLacksColumns ==
    /\ uploaded_file.kind = "table"
    /\ \/ ~({"Aircraft_ID", "Month"} \subseteq uploaded_file.cols)
       \/ ("dSFC" \notin uploaded_file.cols /\ ~(FlowCols \subseteq uploaded_file.cols))

MainLacksColumns ==
    /\ uploaded_file.kind = "table"
    /\ ~(FlowCols \subseteq uploaded_file.cols)

Malformed ==
    \/ uploaded_file.kind = "unreadable"
    \/ page = "fleet" /\ FleetLacksColumns
    \/ page = "main" /\ MainLacksColumns

C7_DivisorGuarded ==
    /\ \A d \in divisors : d > 0
    /\ dSFC.k \in {"unset", "fin"}
    /\ df.kind = "table" /\ "dSFC" \in df.cols =>
          \A i \in 1..Len(df.rows) : df.rows[i]["dSFC"].k = "fin"

\* C9 as stated: the evaluation table has a fuel cost column, and each row's net
\* saving is the baseline cost minus the row's fuel cost and wash cost.
C9_TableCarriesFuelCost ==
    df_opt # None =>
        /\ Len(df_opt.rows) = Len(intervals)
        /\ {"Interval (flights)", "Fuel cost (EUR)", "Wash cost (EUR)", "Net saving (EUR)"}
              \subseteq df_opt.cols
        /\ \A j \in 1..Len(df_opt.rows) :
              df_opt.rows[j]["Net saving (EUR)"] =
                 baseline_cost - df_opt.rows[j]["Fuel cost (EUR)"] - df_opt.rows[j]["Wash cost (EUR)"]

\* C8: the candidate list is never empty and is exactly 20, 30, ..., max_interval,
\* so the evaluation lists end with (max_interval - 20) / 10 + 1 entries (11 for
\* max_interval = 120) and np.argmax is never applied to an empty list.
C8_SweepRange ==
    (page = "main" /\ pc \in {"baseline", "sweep", "argmax", "table", "trajectory", "done", "crashed"}) =>
        /\ Len(intervals) = (max_interval - MinInterval) \div IntervalStep + 1
        /\ Len(intervals) >= 1
        /\ \A k \in Candidates : intervals[k] = MinInterval + (k - 1) * IntervalStep
        /\ \A k \in Candidates : k > 1 => intervals[k - 1] < intervals[k]
        /\ intervals[Len(intervals)] = max_interval
        /\ max_interval = 120 => Len(intervals) = 11
        /\ pc # "crashed"
        /\ Swept =>
              /\ Len(net_savings) = Len(intervals)
              /\ Len(fuel_costs) = Len(intervals)
              /\ Len(wash_costs) = Len(intervals)

\* a finished run with max_interval = 120 and its 11 evaluated candidates
C8_Witness ==
    /\ page = "main" /\ pc = "done"
    /\ max_interval = 120
    /\ Len(net_savings) = 11

\* C10: for every evaluated candidate the number of recoveries the inner loop applied
\* equals the number of washes charged, flights_per_year // iv.
C10_WashesChargedAreApplied ==
    /\ Len(washes_applied) = Len(wash_costs)
    /\ \A j \in 1..Len(washes_applied) :
          /\ washes_applied[j] = flights_per_year \div intervals[j]
          /\ wash_costs[j] = washes_applied[j] * wash_cost * MoneyScale

\* a sweep that applied two washes for one candidate, one for another, none for a third
C10_Witness ==
    /\ Swept
    /\ \E j \in Candidates : washes_applied[j] = 2 /\ flights_per_year % intervals[j] # 0
    /\ \E j \in Candidates : washes_applied[j] = 1 /\ flights_per_year % intervals[j] = 0
    /\ \E j \in Candidates : washes_applied[j] = 0

====
